---- MODULE Spec2Model ----
(***************************************************************************)
(* The N+1 sentence generator (src/generator/lang_gen.py): the list file,  *)
(* the search for the next unfinished lemma, the choice of the best        *)
(* candidate sentence, the reordering of the list and the step loop.       *)
(*                                                                         *)
(* Conventions.  Python indices are kept as they are (0-based): entry      *)
(* number i of a Python list is element i+1 of the TLA+ sequence.          *)
(* Optional[str] is a sequence of length 0 (None) or 1 (<<text>>).  A      *)
(* lemma is a string; a sentence text is the sequence of its words.        *)
(***************************************************************************)
EXTENDS Integers, Sequences, FiniteSets, TLC

\* ------------------------------------------------------------ bounds ----
MaxLen == 3        \* longest list a run starts from / a function is called on
MaxSentLen == 3    \* longest candidate sentence of one step, in words
MaxCands == 2      \* most candidates handed to choose_best_sentence
MaxSteps == 3      \* largest --steps of a run
MaxSkip == 1       \* largest --skip
MaxGenLen == 2     \* longest sentence the generator returns in a run, in words
MaxGenerated == 1  \* most sentences the generator returns in a run
MaxText == 6       \* longest text of a list file, in characters

\* ----------------------------------------------------- strings, words ---
\* str.lower() on the words of the model.
Lower(s) ==
    CASE s = "A" -> "a"
      [] s = "B" -> "b"
      [] s = "C" -> "c"
      [] s = "Z" -> "z"
      [] OTHER -> s

\* Python's order on the (lower-case) strings of the model, as a rank.
StrRank(s) ==
    CASE s = "" -> 0
      [] s = "a" -> 1
      [] s = "b" -> 2
      [] s = "c" -> 3
      [] s = "z" -> 4
      [] OTHER -> 5

\* Lemma texts a list file may hold, and the words a sentence is made of.
LemmaTexts == {"a", "B", "c"}
Tokens == {"a", "b", "Z", "uh"}

\* What the Stanza pipeline answers for one word (w.lemma): a lower-case
\* lemma, a lemma that keeps its capital, or no lemma at all.
StanzaLemma(tok) ==
    CASE tok = "uh" -> ""
      [] OTHER -> tok

\* ------------------------------------------------------ data structures -
None == <<>>
Some(x) == <<x>>

ListEntry(l, s) == [lemma |-> l, sentence |-> s]

LemmatizedSentence(o, c, t, l) == [original |-> o, cleaned |-> c, tokens |-> t, lemmas |-> l]

\* ---------------------------------------------------- sequence helpers --
Range(s) == {s[i] : i \in 1..Len(s)}

SeqsUpTo(S, n) == UNION {[1..k -> S] : k \in 0..n}

Min(a, b) == IF a < b THEN a ELSE b

\* xs[lo:] (0-based slice from lo to the end)
SliceFrom(xs, lo) == SubSeq(xs, lo + 1, Len(xs))

\* xs[:hi] (0-based slice of the first hi elements)
SliceTo(xs, hi) == SubSeq(xs, 1, hi)

\* --------------------------------------------- find_next_undone_lemma ---
\* The for loop of lines 136-138: the first i in range(i, len(entries))
\* whose sentence is None, or -1 once the range is exhausted.
RECURSIVE ScanUndone(_, _)
ScanUndone(entries, i) ==
    IF i >= Len(entries) THEN -1
    ELSE IF entries[i + 1].sentence = None THEN i
    ELSE ScanUndone(entries, i + 1)

\* The mutant: the negative skip_count is clamped, the large one is not.
find_next_undone_lemma_noclamp(entries, skip_count) ==
    LET sc == IF skip_count < 0 THEN 0 ELSE skip_count
        i == ScanUndone(entries, IF sc > Len(entries) THEN 0 ELSE sc)
    IN IF i = -1
       THEN [raised |-> TRUE, index |-> -1, lemma |-> ""]
       ELSE [raised |-> FALSE, index |-> i, lemma |-> entries[i + 1].lemma]

\* (index, lemma) of the first unfinished entry at or after skip_count, or
\* ValueError (raised = TRUE).
find_next_undone_lemma(entries, skip_count) ==
    LET sc == IF skip_count < 0 THEN 0 ELSE skip_count
        start == Min(sc, Len(entries))
        i == ScanUndone(entries, start)
    IN IF i = -1
       THEN [raised |-> TRUE, index |-> -1, lemma |-> ""]
       ELSE [raised |-> FALSE, index |-> i, lemma |-> entries[i + 1].lemma]

\* ------------------------------------------ lemmatize_sentences_stanza --
\* One sentence: an empty cleaned text gives no tokens and no lemmas;
\* otherwise one (token, lemma) pair per word, in order.
LemmatizeOne(s) ==
    IF s = <<>> THEN LemmatizedSentence(s, <<>>, <<>>, <<>>)
    ELSE LemmatizedSentence(s, s, s, [i \in 1..Len(s) |-> StanzaLemma(s[i])])

lemmatize_sentences_stanza(sentences) ==
    [i \in 1..Len(sentences) |-> LemmatizeOne(sentences[i])]

\* ------------------------------------------------ choose_best_sentence --
\* [l.lower() for l in lemmas if l]
NonEmpty(l) == l # ""
LowerAll(ls) == [i \in 1..Len(ls) |-> Lower(ls[i])]
LemmasLower(lemmas) == LowerAll(SelectSeq(lemmas, NonEmpty))

\* sorted(S) for a set of lower-case strings
RECURSIVE SortedList(_)
SortedList(S) ==
    IF S = {} THEN <<>>
    ELSE LET m == CHOOSE x \in S : \A y \in S : StrRank(x) <= StrRank(y)
         IN <<m>> \o SortedList(S \ {m})

\* The mutant: the later of two candidates with equal keys goes first.
KeyLess_orEqual(t, u) ==
    \/ t.unknown_count < u.unknown_count
    \/ t.unknown_count = u.unknown_count /\ t.tok_count <= u.tok_count

\* The sort key of line 391 and its order.
KeyLess(t, u) ==
    \/ t.unknown_count < u.unknown_count
    \/ t.unknown_count = u.unknown_count /\ t.tok_count < u.tok_count

\* list.sort(key=...): a stable sort, here by insertion from the right.
RECURSIVE InsertSorted(_, _)
InsertSorted(t, sorted) ==
    IF sorted = <<>> THEN <<t>>
    ELSE IF KeyLess(Head(sorted), t) THEN <<Head(sorted)>> \o InsertSorted(t, Tail(sorted))
    ELSE <<t>> \o sorted

RECURSIVE StableSort(_)
StableSort(ts) ==
    IF ts = <<>> THEN <<>>
    ELSE InsertSorted(Head(ts), StableSort(Tail(ts)))

\* The loop of lines 379-385 for one lemmatized sentence.
Scored(ls, prev_set) ==
    LET lemmas_lower == LemmasLower(ls.lemmas)
        unknown == SortedList({l \in Range(lemmas_lower) : l \notin prev_set})
    IN [ls |-> ls, unknown_count |-> Len(unknown), tok_count |-> Len(ls.tokens),
        unknown |-> unknown]

\* The mutant: any sentence with a lemma qualifies.
ContainsTarget_any(ls, target) == LemmasLower(ls.lemmas) # <<>>

\* Line 381: target in lemmas_lower
ContainsTarget(ls, target) == target \in Range(LemmasLower(ls.lemmas))

\* Lines 387-399: None without candidates, else the head of the sorted
\* candidates and the debug record.
BestOf(candidates) ==
    IF candidates = <<>>
    THEN [chosen |-> None, unknown_count |-> 0, token_count |-> 0,
          unknown_list |-> <<>>, candidate_count |-> 0]
    ELSE \* the bound variable holds the sorted list, computed once
         CHOOSE res \in {[chosen |-> Some(sorted[1].ls),
                          unknown_count |-> sorted[1].unknown_count,
                          token_count |-> sorted[1].tok_count,
                          unknown_list |-> sorted[1].unknown,
                          candidate_count |-> Len(candidates)] :
                             sorted \in {StableSort(candidates)}} : TRUE

choose_best_sentence(target_lemma, lemmatized, prev_lemmas) ==
    LET prev_set == {Lower(l) : l \in Range(prev_lemmas)}
        target == Lower(target_lemma)
        Keep(ls) == ContainsTarget(ls, target)
        kept == SelectSeq(lemmatized, Keep)
    IN \* the bound variable holds the candidates of lines 378-385
       CHOOSE res \in {BestOf(candidates) :
                          candidates \in {[i \in 1..Len(kept) |-> Scored(kept[i], prev_set)]}} : TRUE

\* ------------------------------------------ apply_sentence_and_reorder --
\* lemma_to_first_index.get(key, -1): the first (0-based) index whose
\* lower-cased lemma is key.
RECURSIVE FirstIndexFrom(_, _, _)
FirstIndexFrom(entries, key, i) ==
    IF i >= Len(entries) THEN -1
    ELSE IF Lower(entries[i + 1].lemma) = key THEN i
    ELSE FirstIndexFrom(entries, key, i + 1)

lemma_to_first_index(entries, key) == FirstIndexFrom(entries, key, 0)

\* The mutant: the entry right after the target is not taken for a reorder.
Partition_skipsNeighbour(entries, current_index, unknown_lemmas) ==
    LET current_lemma == entries[current_index + 1].lemma
        all_head_lemmas_set == {Lower(entries[i].lemma) : i \in 1..Len(entries)}
        IsReorder(l) == /\ l # Lower(current_lemma)
                        /\ l \in all_head_lemmas_set
                        /\ lemma_to_first_index(entries, l) > current_index + 1
        IsOutOfBound(l) == /\ l # Lower(current_lemma)
                           /\ l \notin all_head_lemmas_set
    IN [reorders |-> SelectSeq(unknown_lemmas, IsReorder),
        out_of_bound |-> SelectSeq(unknown_lemmas, IsOutOfBound)]

\* Lines 441-459: the unknown lemmas that are moved up (reorders) and the
\* ones that are new to the file (out_of_bound), each in the order, and with
\* the repetitions, of unknown_lemmas.
Partition(entries, current_index, unknown_lemmas) ==
    LET current_lemma == entries[current_index + 1].lemma
        all_head_lemmas_set == {Lower(entries[i].lemma) : i \in 1..Len(entries)}
        IsReorder(l) == /\ l # Lower(current_lemma)
                        /\ l \in all_head_lemmas_set
                        /\ lemma_to_first_index(entries, l) > current_index
        IsOutOfBound(l) == /\ l # Lower(current_lemma)
                           /\ l \notin all_head_lemmas_set
    IN [reorders |-> SelectSeq(unknown_lemmas, IsReorder),
        out_of_bound |-> SelectSeq(unknown_lemmas, IsOutOfBound)]

\* The mutant: a moved entry is copied without its sentence.
RECURSIVE ToInsert_bare(_, _, _, _)
ToInsert_bare(entries, unknown_lemmas, reorders, out_of_bound) ==
    IF unknown_lemmas = <<>> THEN <<>>
    ELSE LET l == Head(unknown_lemmas)
             rest == ToInsert_bare(entries, Tail(unknown_lemmas), reorders, out_of_bound)
         IN IF l \in Range(reorders)
            THEN LET orig == entries[lemma_to_first_index(entries, l) + 1]
                 IN <<ListEntry(orig.lemma, None)>> \o rest
            ELSE IF l \in Range(out_of_bound)
            THEN <<ListEntry(l, None)>> \o rest
            ELSE rest

\* Lines 461-472: one entry per element of unknown_lemmas that is a reorder
\* or an out-of-bound lemma, in the order of unknown_lemmas.
RECURSIVE ToInsert(_, _, _, _)
ToInsert(entries, unknown_lemmas, reorders, out_of_bound) ==
    IF unknown_lemmas = <<>> THEN <<>>
    ELSE LET l == Head(unknown_lemmas)
             rest == ToInsert(entries, Tail(unknown_lemmas), reorders, out_of_bound)
         IN IF l \in Range(reorders)
            THEN LET orig == entries[lemma_to_first_index(entries, l) + 1]
                 IN <<ListEntry(orig.lemma, orig.sentence)>> \o rest
            ELSE IF l \in Range(out_of_bound)
            THEN <<ListEntry(l, None)>> \o rest
            ELSE rest

\* The mutant: the rows that were moved up are left where they were.
FilteredAfter_keepsAll(after, reorder_set) ==
    <<Head(after)>> \o Tail(after)

\* Lines 478-491: the first row of the slice is kept, later rows whose key
\* is a reorder are dropped.
FilteredAfter(after, reorder_set) ==
    LET Stays(e) == Lower(e.lemma) \notin reorder_set
    IN <<Head(after)>> \o SelectSeq(Tail(after), Stays)

\* The mutant: the block is put at the head of the list.
apply_sentence_and_reorder_blockFirst(entries, current_index, chosen, unknown_lemmas) ==
    LET updated_entries ==
            [entries EXCEPT ![current_index + 1] =
                ListEntry(entries[current_index + 1].lemma, Some(chosen.original))]
    IN IF unknown_lemmas = <<>>
       THEN [new_entries |-> updated_entries, out_of_bound |-> <<>>, reorders |-> <<>>]
       ELSE LET parts == Partition(entries, current_index, unknown_lemmas)
                to_insert == ToInsert(entries, unknown_lemmas, parts.reorders,
                                      parts.out_of_bound)
                before == SliceTo(updated_entries, current_index)
                after == SliceFrom(updated_entries, current_index)
                filtered_after == FilteredAfter(after, Range(parts.reorders))
            IN [new_entries |-> to_insert \o before \o filtered_after,
                out_of_bound |-> parts.out_of_bound, reorders |-> parts.reorders]

apply_sentence_and_reorder(entries, current_index, chosen, unknown_lemmas) ==
    LET updated_entries ==
            [entries EXCEPT ![current_index + 1] =
                ListEntry(entries[current_index + 1].lemma, Some(chosen.original))]
    IN IF unknown_lemmas = <<>>
       THEN [new_entries |-> updated_entries, out_of_bound |-> <<>>, reorders |-> <<>>]
       ELSE LET parts == Partition(entries, current_index, unknown_lemmas)
                to_insert == ToInsert(entries, unknown_lemmas, parts.reorders,
                                      parts.out_of_bound)
                before == SliceTo(updated_entries, current_index)
                after == SliceFrom(updated_entries, current_index)
                filtered_after == FilteredAfter(after, Range(parts.reorders))
            IN [new_entries |-> before \o to_insert \o filtered_after,
                out_of_bound |-> parts.out_of_bound, reorders |-> parts.reorders]

\* ------------------------------------- the step of the orchestrator ------
\* Line 537: the lemmas of the entries before the target.
PrevLemmas(entries, idx) == [i \in 1..idx |-> entries[i].lemma]

\* The mutant: the unknown lemmas as a sorted set.
Unknowns_sorted(chosen, prev_lemmas) ==
    LET prev_set == {Lower(l) : l \in Range(prev_lemmas)}
    IN SortedList(Range(LemmasLower(chosen.lemmas)) \ prev_set)

\* Lines 554-555: the unknown lemmas of the chosen sentence, in sentence
\* order.
Unknowns(chosen, prev_lemmas) ==
    LET prev_set == {Lower(l) : l \in Range(prev_lemmas)}
        NotKnown(l) == l \notin prev_set
    IN SelectSeq(LemmasLower(chosen.lemmas), NotKnown)

\* ------------------------------------------------------- file utilities -
\* A file is the sequence of its lines; a line is the sequence of its
\* tab-separated fields: <<lemma>> or <<lemma, sentence>>.
write_list_file(entries) ==
    [i \in 1..Len(entries) |->
        IF entries[i].sentence # None /\ entries[i].sentence[1] # <<>>
        THEN <<entries[i].lemma, entries[i].sentence[1]>>
        ELSE <<entries[i].lemma>>]

parse_line(line) ==
    IF Len(line) >= 2
    THEN ListEntry(line[1], IF line[2] # <<>> THEN Some(line[2]) ELSE None)
    ELSE ListEntry(line[1], None)

\* Blank lines (no field, or empty fields only) are skipped.
NotBlank(line) ==
    \/ (Len(line) >= 1 /\ line[1] # "")
    \/ (Len(line) >= 2 /\ line[2] # <<>>)

parse_list_file(lines) ==
    LET kept == SelectSeq(lines, NotBlank)
    IN [i \in 1..Len(kept) |-> parse_line(kept[i])]

\* ------------------------------------- the list file, character by character
\* The text of a file is the sequence of its characters, a lemma and a
\* sentence of an entry the sequences of theirs.  SP stands for any white
\* space that is neither a tab nor a line end.
SP == " "
TAB == "\t"
NL == "\n"
CR == "\r"
Chars == {"a", SP, TAB, NL, CR}

\* str.strip(): white space is dropped at both ends.
IsSpace(c) == c \in {SP, TAB, NL, CR}

RECURSIVE LStrip(_)
LStrip(s) == IF s # <<>> /\ IsSpace(Head(s)) THEN LStrip(Tail(s)) ELSE s

RECURSIVE RStrip(_)
RStrip(s) == IF s # <<>> /\ IsSpace(s[Len(s)]) THEN RStrip(SubSeq(s, 1, Len(s) - 1)) ELSE s

Strip(s) == RStrip(LStrip(s))

\* Lines 78-80, `for raw in f` with raw.rstrip("\n\r"): the file is opened
\* in text mode, so "\n", "\r" and "\r\n" each end a line, and characters
\* after the last line end are a line of their own.  cur is the line read
\* so far.
RECURSIVE ReadLines(_, _)
ReadLines(text, cur) ==
    IF text = <<>> THEN (IF cur = <<>> THEN <<>> ELSE <<cur>>)
    ELSE IF Head(text) = CR /\ Len(text) >= 2 /\ text[2] = NL
    THEN <<cur>> \o ReadLines(Tail(Tail(text)), <<>>)
    ELSE IF Head(text) \in {NL, CR}
    THEN <<cur>> \o ReadLines(Tail(text), <<>>)
    ELSE ReadLines(Tail(text), cur \o <<Head(text)>>)

\* The (1-based) place of the first tab of a line, 0 if it has none.
RECURSIVE FirstTab(_, _)
FirstTab(line, i) ==
    IF i > Len(line) THEN 0
    ELSE IF line[i] = TAB THEN i
    ELSE FirstTab(line, i + 1)

\* Lines 83-87: line.split("\t", 1) and the strip of both fields; a
\* sentence that is empty once stripped is None.
parse_text_line(line) ==
    LET k == FirstTab(line, 1)
    IN IF k > 0
       THEN LET lemma_field == Strip(SubSeq(line, 1, k - 1))
                sentence_field == Strip(SubSeq(line, k + 1, Len(line)))
            IN ListEntry(lemma_field,
                         IF sentence_field # <<>> THEN Some(sentence_field) ELSE None)
       ELSE ListEntry(Strip(line), None)

\* Line 81: a line of white space only is skipped.
NotBlankText(line) == Strip(line) # <<>>

\* parse_list_file on the text of the file.
parse_list_file_text(text) ==
    LET kept == SelectSeq(ReadLines(text, <<>>), NotBlankText)
    IN [i \in 1..Len(kept) |-> parse_text_line(kept[i])]

\* The mutant: the tab is written after every lemma.
RECURSIVE write_list_file_text_alwaysTab(_)
write_list_file_text_alwaysTab(entries) ==
    IF entries = <<>> THEN <<>>
    ELSE LET e == Head(entries)
         IN (IF e.sentence # None /\ e.sentence[1] # <<>>
             THEN e.lemma \o <<TAB>> \o e.sentence[1] \o <<NL>>
             ELSE e.lemma \o <<TAB, NL>>)
            \o write_list_file_text_alwaysTab(Tail(entries))

\* write_list_file, as the text it leaves in the file: `if e.sentence` is
\* false for None and for the empty string.
RECURSIVE write_list_file_text(_)
write_list_file_text(entries) ==
    IF entries = <<>> THEN <<>>
    ELSE LET e == Head(entries)
         IN (IF e.sentence # None /\ e.sentence[1] # <<>>
             THEN e.lemma \o <<TAB>> \o e.sentence[1] \o <<NL>>
             ELSE e.lemma \o <<NL>>)
            \o write_list_file_text(Tail(entries))

\* ----------------------------------------------------------- file names -
\* A file name: an optional directory part, then either a number written
\* with `zeros` leading zeros (stem = "") or a stem that is not a number;
\* then the extension ("" for none, "." for a bare dot) and `nexts` copies
\* of the suffix ".next".
FileName(d, z, n, st, e, k) ==
    [dir |-> d, zeros |-> z, number |-> n, stem |-> st, ext |-> e, nexts |-> k]

\* Lines 112 and 116: the base name is a number with at most one extension.
IsNumbered(f) == f.stem = "" /\ f.nexts = 0

\* The mutant: the number is kept instead of incremented.
get_next_filename_same(f) ==
    IF IsNumbered(f)
    THEN FileName(FALSE, 0, f.number, "", IF f.ext = "" THEN ".txt" ELSE f.ext, 0)
    ELSE FileName(FALSE, f.zeros, f.number, f.stem, f.ext, f.nexts + 1)

\* basename, then str(int(number) + 1) + (ext or ".txt"), or base + ".next".
get_next_filename(f) ==
    IF IsNumbered(f)
    THEN FileName(FALSE, 0, f.number + 1, "", IF f.ext = "" THEN ".txt" ELSE f.ext, 0)
    ELSE FileName(FALSE, f.zeros, f.number, f.stem, f.ext, f.nexts + 1)

\* ============================================ generate_language_learning_list
VARIABLES
    steps, filename, skip_count,  \* the arguments of the run
    files,                        \* the file system: file name -> lines
    pc,                           \* where the run is in its step
    outcome,                      \* how the run ended ("" while it runs)
    current_file, step_idx,       \* the loop variables
    entries, idx, lemma, prev_lemmas,
    sentences, lemmas_per_sentence,
    chosen, unknowns, new_entries, next_file,
    loads, writes,                \* history: names read / written, in order
    fn_in, fn_out, fn_done        \* one call of a function on its own

vars == <<steps, filename, skip_count, files, pc, outcome, current_file, step_idx,
          entries, idx, lemma, prev_lemmas, sentences, lemmas_per_sentence,
          chosen, unknowns, new_entries, next_file, loads, writes,
          fn_in, fn_out, fn_done>>

runArgs == <<steps, filename, skip_count>>
locals == <<entries, idx, lemma, prev_lemmas, sentences, lemmas_per_sentence,
            chosen, unknowns, new_entries, next_file>>
fnVars == <<fn_in, fn_out, fn_done>>

\* ------------------------------------------------- inputs of the model --
\* Sentence texts: up to MaxSentLen words each (no word at all: a text of
\* punctuation only); the ones the generator returns in a run are shorter.
SentenceTexts == SeqsUpTo(Tokens, MaxSentLen)
GeneratedTexts == SeqsUpTo(Tokens, MaxGenLen)

NoDuplicateKeys(es) ==
    \A i, j \in 1..Len(es) : Lower(es[i].lemma) = Lower(es[j].lemma) => i = j

\* Frequency lists as they come: no sentence yet, no lemma twice.
FreshLists ==
    {es \in SeqsUpTo({ListEntry(l, None) : l \in LemmaTexts}, MaxLen) :
        Len(es) >= 1 /\ NoDuplicateKeys(es)}

\* "1.txt", "07", "lists/3.text", "words.txt"
InputNames ==
    {FileName(FALSE, 0, 1, "", ".txt", 0), FileName(FALSE, 1, 7, "", "", 0),
     FileName(TRUE, 0, 3, "", ".text", 0), FileName(FALSE, 0, 0, "words", ".txt", 0)}

\* The runs of the model: every fresh list under the name "1.txt", and
\* every name with the list a, B, c.
RunInputs ==
    ({FileName(FALSE, 0, 1, "", ".txt", 0)} \X FreshLists)
    \cup (InputNames \X {<<ListEntry("a", None), ListEntry("B", None), ListEntry("c", None)>>})

NoFile == FileName(FALSE, 0, 0, "", "", 0)

IdleLocals ==
    /\ entries = <<>> /\ idx = -1 /\ lemma = "" /\ prev_lemmas = <<>>
    /\ sentences = <<>> /\ lemmas_per_sentence = <<>>
    /\ chosen = None /\ unknowns = <<>> /\ new_entries = <<>> /\ next_file = NoFile

IdleFn == fn_in = <<>> /\ fn_out = <<>> /\ fn_done = FALSE

Init ==
    /\ steps \in -1..MaxSteps
    /\ skip_count \in 0..MaxSkip
    /\ \E inp \in RunInputs :
          /\ filename = inp[1]
          /\ \/ files = (inp[1] :> write_list_file(inp[2]))
             \/ files = <<>>      \* there is no such file
    /\ pc = "START" /\ outcome = ""
    /\ current_file = NoFile /\ step_idx = 0
    /\ IdleLocals /\ IdleFn
    /\ loads = <<>> /\ writes = <<>>

\* ------------------------------------------------------------- actions --
\* Lines 524-529: nothing to do for steps <= 0, else the first iteration.
Start ==
    /\ pc = "START"
    /\ IF steps <= 0
       THEN /\ pc' = "DONE" /\ outcome' = "NothingToDo"
            /\ UNCHANGED <<current_file, step_idx>>
       ELSE /\ pc' = "LOAD" /\ outcome' = outcome
            /\ current_file' = filename /\ step_idx' = 1
    /\ UNCHANGED <<runArgs, files, locals, loads, writes, fnVars>>

\* Line 531: the FileNotFoundError of parse_list_file is not caught.
Load ==
    /\ pc = "LOAD"
    /\ IF current_file \in DOMAIN files
       THEN /\ entries' = parse_list_file(files[current_file])
            /\ loads' = Append(loads, current_file)
            /\ pc' = "LOCATE" /\ outcome' = outcome
       ELSE /\ pc' = "DONE" /\ outcome' = "FileNotFound"
            /\ UNCHANGED <<entries, loads>>
    /\ UNCHANGED <<runArgs, files, current_file, step_idx, idx, lemma,
                   prev_lemmas, sentences, lemmas_per_sentence, chosen, unknowns,
                   new_entries, next_file, writes, fnVars>>

\* Lines 534-537: the ValueError of find_next_undone_lemma is not caught.
Locate ==
    /\ pc = "LOCATE"
    /\ \E r \in {find_next_undone_lemma(entries, skip_count)} :
          IF r.raised
          THEN /\ pc' = "DONE" /\ outcome' = "NotFound"
               /\ UNCHANGED <<idx, lemma, prev_lemmas>>
          ELSE /\ pc' = "GENERATE" /\ outcome' = outcome
               /\ idx' = r.index /\ lemma' = r.lemma
               /\ prev_lemmas' = PrevLemmas(entries, r.index)
    /\ UNCHANGED <<runArgs, files, current_file, step_idx, entries, sentences,
                   lemmas_per_sentence, chosen, unknowns, new_entries, next_file,
                   loads, writes, fnVars>>

\* Line 540: whatever the generator (or its fallback) returns.
Generate ==
    /\ pc = "GENERATE"
    /\ \E ss \in SeqsUpTo(GeneratedTexts, MaxGenerated) :
          /\ Len(ss) >= 1
          /\ sentences' = ss
    /\ pc' = "ANNOTATE"
    /\ UNCHANGED <<runArgs, files, outcome, current_file, step_idx, entries, idx,
                   lemma, prev_lemmas, lemmas_per_sentence, chosen, unknowns,
                   new_entries, next_file, loads, writes, fnVars>>

\* Line 543: the lemmatizer answers, or raises (no pipeline), which ends
\* the run.
Annotate ==
    /\ pc = "ANNOTATE"
    /\ \/ /\ lemmas_per_sentence' = lemmatize_sentences_stanza(sentences)
          /\ pc' = "SCORE" /\ outcome' = outcome
       \/ /\ lemmas_per_sentence' = lemmas_per_sentence
          /\ pc' = "DONE" /\ outcome' = "AnnotateFailed"
    /\ UNCHANGED <<runArgs, files, current_file, step_idx, entries, idx, lemma,
                   prev_lemmas, sentences, chosen, unknowns, new_entries, next_file,
                   loads, writes, fnVars>>

\* The mutant: the step that finds no candidate writes the list it read.
Score_writesOnAbort ==
    /\ pc = "SCORE"
    /\ \E r \in {choose_best_sentence(lemma, lemmas_per_sentence, prev_lemmas)} :
          IF r.chosen = None
          THEN /\ pc' = "DONE" /\ outcome' = "Abort"
               /\ chosen' = None
               /\ files' = (get_next_filename(current_file) :> write_list_file(entries)) @@ files
               /\ UNCHANGED unknowns
          ELSE /\ pc' = "REORDER" /\ outcome' = outcome
               /\ chosen' = r.chosen
               /\ unknowns' = Unknowns(r.chosen[1], prev_lemmas)
               /\ files' = files
    /\ sentences' = <<>> /\ lemmas_per_sentence' = <<>>
    /\ UNCHANGED <<runArgs, current_file, step_idx, entries, idx, lemma,
                   prev_lemmas, new_entries, next_file, loads, writes, fnVars>>

\* Lines 546-555.  The candidates are not read again after line 546; the
\* model forgets them here.
Score ==
    /\ pc = "SCORE"
    /\ \E r \in {choose_best_sentence(lemma, lemmas_per_sentence, prev_lemmas)} :
          IF r.chosen = None
          THEN /\ pc' = "DONE" /\ outcome' = "Abort"
               /\ chosen' = None
               /\ UNCHANGED unknowns
          ELSE /\ pc' = "REORDER" /\ outcome' = outcome
               /\ chosen' = r.chosen
               /\ unknowns' = Unknowns(r.chosen[1], prev_lemmas)
    /\ sentences' = <<>> /\ lemmas_per_sentence' = <<>>
    /\ UNCHANGED <<runArgs, files, current_file, step_idx, entries, idx, lemma,
                   prev_lemmas, new_entries, next_file, loads, writes, fnVars>>

\* Lines 558-559
Reorder ==
    /\ pc = "REORDER"
    /\ new_entries' = apply_sentence_and_reorder(entries, idx, chosen[1], unknowns).new_entries
    /\ next_file' = get_next_filename(current_file)
    /\ pc' = "PERSIST"
    /\ UNCHANGED <<runArgs, files, outcome, current_file, step_idx, entries, idx,
                   lemma, prev_lemmas, sentences, lemmas_per_sentence, chosen,
                   unknowns, loads, writes, fnVars>>

\* The mutant: the loop runs one iteration too many.
Persist_oneMore ==
    /\ pc = "PERSIST"
    /\ files' = (next_file :> write_list_file(new_entries)) @@ files
    /\ writes' = Append(writes, next_file)
    /\ current_file' = next_file
    /\ IF step_idx <= steps
       THEN /\ step_idx' = step_idx + 1 /\ pc' = "LOAD" /\ outcome' = outcome
       ELSE /\ step_idx' = step_idx /\ pc' = "DONE" /\ outcome' = "Completed"
    /\ UNCHANGED <<runArgs, locals, loads, fnVars>>

\* Lines 560-576 and the loop header: the file is written, then the next
\* iteration starts or the loop is over.
Persist ==
    /\ pc = "PERSIST"
    /\ files' = (next_file :> write_list_file(new_entries)) @@ files
    /\ writes' = Append(writes, next_file)
    /\ current_file' = next_file
    /\ IF step_idx < steps
       THEN /\ step_idx' = step_idx + 1 /\ pc' = "LOAD" /\ outcome' = outcome
       ELSE /\ step_idx' = step_idx /\ pc' = "DONE" /\ outcome' = "Completed"
    /\ UNCHANGED <<runArgs, locals, loads, fnVars>>

Next ==
    \/ Start
    \/ Load
    \/ Locate
    \/ Generate
    \/ Annotate
    \/ Score
    \/ Reorder
    \/ Persist

Spec == Init /\ [][Next]_vars

\* The run is one sequential loop whose calls all return: a step that can
\* be taken is taken.
FairSpec == Spec /\ WF_vars(Next)

\* ====================================================== one step, alone ==
\* Lines 534-558 for one list, one --skip and one candidate sentence: the
\* target is located, the sentence lemmatized and scored, the list
\* reordered.  status is "NotFound" (ValueError), "Abort" (chosen is None)
\* or "Written".
StepResult(es, skip, sentence) ==
    LET r == find_next_undone_lemma(es, skip)
        prev == PrevLemmas(es, r.index)
        best == choose_best_sentence(r.lemma, lemmatize_sentences_stanza(<<sentence>>), prev)
        unk == Unknowns(best.chosen[1], prev)
        res == apply_sentence_and_reorder(es, r.index, best.chosen[1], unk)
        blank == [status |-> "NotFound", idx |-> -1, lemma |-> "", chosen |-> None,
                  unknown_list |-> <<>>, unknowns |-> <<>>, new_entries |-> <<>>,
                  reorders |-> <<>>, out_of_bound |-> <<>>]
    IN IF r.raised THEN blank
       ELSE IF best.chosen = None
       THEN [blank EXCEPT !.status = "Abort", !.idx = r.index, !.lemma = r.lemma]
       ELSE [status |-> "Written", idx |-> r.index, lemma |-> r.lemma,
             chosen |-> best.chosen, unknown_list |-> best.unknown_list,
             unknowns |-> unk, new_entries |-> res.new_entries,
             reorders |-> res.reorders, out_of_bound |-> res.out_of_bound]

\* Entries of a list file as it may be found: finished or not, keys
\* possibly repeated.
EntryValues == {ListEntry(l, s) : l \in LemmaTexts, s \in {None, Some(<<"Z", "a">>)}}
InputLists == SeqsUpTo(EntryValues, MaxLen)

IdleRun ==
    /\ steps = 0 /\ skip_count = 0 /\ filename = NoFile
    /\ files = <<>> /\ pc = "IDLE" /\ outcome = ""
    /\ current_file = NoFile /\ step_idx = 0
    /\ IdleLocals
    /\ loads = <<>> /\ writes = <<>>

runVars == <<steps, filename, skip_count, files, pc, outcome, current_file, step_idx,
             entries, idx, lemma, prev_lemmas, sentences, lemmas_per_sentence,
             chosen, unknowns, new_entries, next_file, loads, writes>>

InitStep ==
    /\ IdleRun
    /\ fn_in \in [entries : InputLists, skip_count : 0..MaxSkip, sentence : SentenceTexts]
    /\ fn_out = <<>>
    /\ fn_done = FALSE

StepCall ==
    /\ pc = "IDLE" /\ ~fn_done
    /\ fn_out' = StepResult(fn_in.entries, fn_in.skip_count, fn_in.sentence)
    /\ fn_done' = TRUE
    /\ UNCHANGED <<fn_in, runVars>>

SpecStep == InitStep /\ [][StepCall]_vars

\* ============================================ choose_best_sentence, alone
CandidateLists == SeqsUpTo({LemmatizeOne(s) : s \in SentenceTexts}, MaxCands)

\* Lemmas of a list in which an inserted lemma ("z") has its entry.
ChooseLemmas == LemmaTexts \cup {"z"}

InitChoose ==
    /\ IdleRun
    /\ fn_in \in [target_lemma : ChooseLemmas, lemmatized : CandidateLists,
                  prev_lemmas : SeqsUpTo(ChooseLemmas, 2)]
    /\ fn_out = <<>>
    /\ fn_done = FALSE

ChooseCall ==
    /\ pc = "IDLE" /\ ~fn_done
    /\ fn_out' = choose_best_sentence(fn_in.target_lemma, fn_in.lemmatized, fn_in.prev_lemmas)
    /\ fn_done' = TRUE
    /\ UNCHANGED <<fn_in, runVars>>

SpecChoose == InitChoose /\ [][ChooseCall]_vars

\* ========================================== find_next_undone_lemma, alone
InitFind ==
    /\ IdleRun
    /\ fn_in \in [entries : InputLists, skip_count : -1..(MaxLen + 1)]
    /\ fn_out = <<>>
    /\ fn_done = FALSE

FindCall ==
    /\ pc = "IDLE" /\ ~fn_done
    /\ fn_out' = find_next_undone_lemma(fn_in.entries, fn_in.skip_count)
    /\ fn_done' = TRUE
    /\ UNCHANGED <<fn_in, runVars>>

SpecFind == InitFind /\ [][FindCall]_vars

\* ================================ parse_list_file and write_list_file, alone
Texts == SeqsUpTo(Chars, MaxText)

\* The lines of a text that ends each line with "\n", split at "\n" only.
RECURSIVE PlainLines(_, _)
PlainLines(text, cur) ==
    IF text = <<>> THEN <<>>
    ELSE IF Head(text) = NL THEN <<cur>> \o PlainLines(Tail(text), <<>>)
    ELSE PlainLines(Tail(text), cur \o <<Head(text)>>)

\* The fields of a line: the line itself, or what is before and what is
\* after its first tab.
FieldsOf(line) ==
    LET k == FirstTab(line, 1)
    IN IF k = 0 THEN <<line>>
       ELSE <<SubSeq(line, 1, k - 1), SubSeq(line, k + 1, Len(line))>>

\* The list of entries (lines 51-54) whose lemmas and sentences, put on
\* lines as they are, make up the text: nothing is stripped, no line is
\* skipped.
EntriesPutAs(text) ==
    LET lines == PlainLines(text, <<>>)
    IN [i \in 1..Len(lines) |->
           LET fs == FieldsOf(lines[i])
           IN ListEntry(fs[1], IF Len(fs) = 2 THEN Some(fs[2]) ELSE None)]

\* Every list of entries, with tab-free lemmas and fields without "\n",
\* that takes at most MaxText characters on its lines.
EntryLists == {EntriesPutAs(t) : t \in {x \in Texts : x = <<>> \/ x[Len(x)] = NL}}

InitFile ==
    /\ IdleRun
    /\ fn_in \in [kind : {"text"}, text : Texts, entries : {<<>>}]
                 \cup [kind : {"entries"}, text : {<<>>}, entries : EntryLists]
    /\ fn_out = <<>>
    /\ fn_done = FALSE

\* A file is read, and what was read is written.
ParseThenWrite ==
    /\ pc = "IDLE" /\ ~fn_done
    /\ fn_in.kind = "text"
    /\ \E es \in {parse_list_file_text(fn_in.text)} :
          fn_out' = [entries |-> es, text |-> write_list_file_text(es)]
    /\ fn_done' = TRUE
    /\ UNCHANGED <<fn_in, runVars>>

\* A list is written, and what was written is read.
WriteThenParse ==
    /\ pc = "IDLE" /\ ~fn_done
    /\ fn_in.kind = "entries"
    /\ \E t \in {write_list_file_text(fn_in.entries)} :
          fn_out' = [text |-> t, entries |-> parse_list_file_text(t)]
    /\ fn_done' = TRUE
    /\ UNCHANGED <<fn_in, runVars>>

NextFile == ParseThenWrite \/ WriteThenParse

SpecFile == InitFile /\ [][NextFile]_vars

\* ================================================================ claims =
Key(e) == Lower(e.lemma)

\* The lemma keys of a lemmatized sentence: its non-empty lemmas, lower-cased.
SentenceKeys(ls) == {Lower(ls.lemmas[i]) : i \in {j \in 1..Len(ls.lemmas) : ls.lemmas[j] # ""}}

\* The positions (1-based) of the key k in a list.
PositionsOf(es, k) == {p \in 1..Len(es) : Key(es[p]) = k}

StepWritten == fn_done /\ fn_out.status = "Written"

\* The position in the output of the entry that received the sentence: the
\* first entry at or after the old position that bears the target's key.
IsTargetPos(p) ==
    /\ p \in (fn_out.idx + 1)..Len(fn_out.new_entries)
    /\ Key(fn_out.new_entries[p]) = Lower(fn_out.lemma)
    /\ \A q \in (fn_out.idx + 1)..(p - 1) : Key(fn_out.new_entries[q]) # Lower(fn_out.lemma)

\* C1, as stated: after the step every lemma key of the chosen sentence,
\* the target's own key included, has a position strictly before the
\* position of the entry that received the sentence.
C1_AllKeysStrictlyBefore ==
    StepWritten =>
        \E p \in 1..Len(fn_out.new_entries) :
            /\ IsTargetPos(p)
            /\ \A k \in SentenceKeys(fn_out.chosen[1]) :
                   \E q \in PositionsOf(fn_out.new_entries, k) : q < p

\* C1, amended: after the step every lemma key of the chosen sentence other
\* than the target's own key has a position strictly before the position of
\* the entry that received the sentence, and that entry bears the target's
\* key and the chosen sentence.
C1_OtherKeysStrictlyBefore ==
    StepWritten =>
        \E p \in 1..Len(fn_out.new_entries) :
            /\ IsTargetPos(p)
            /\ fn_out.new_entries[p] = ListEntry(fn_out.lemma, Some(fn_out.chosen[1].original))
            /\ \A k \in SentenceKeys(fn_out.chosen[1]) \ {Lower(fn_out.lemma)} :
                   \E q \in PositionsOf(fn_out.new_entries, k) : q < p

\* A step that moved one entry up and inserted a new one.
C1_Witness ==
    /\ StepWritten
    /\ fn_out.reorders # <<>>
    /\ fn_out.out_of_bound # <<>>

\* The curriculum invariant of a list: every lemma key of the sentence of a
\* finished entry has an entry at or before that entry.
CurriculumHolds(es) ==
    \A p \in 1..Len(es) :
        es[p].sentence # None =>
            \A k \in SentenceKeys(LemmatizeOne(es[p].sentence[1])) :
                \E q \in PositionsOf(es, k) : q <= p

\* C2: in a run that starts from a list without sentences and without
\* duplicate keys, every list file written satisfies the curriculum
\* invariant for every finished entry.
C2_CurriculumInvariant ==
    \A i \in 1..Len(writes) : CurriculumHolds(parse_list_file(files[writes[i]]))

\* C3: a step on a list without duplicate keys produces a list without
\* duplicate keys, whatever the chosen sentence.
C3_NoNewDuplicate ==
    (StepWritten /\ NoDuplicateKeys(fn_in.entries)) => NoDuplicateKeys(fn_out.new_entries)

\* C4: a step on a list without duplicate keys loses no entry: every entry
\* other than the target is in the output as it was (lemma text and
\* sentence), no entry of its key differs from it, and the target is there
\* with its lemma text and the chosen sentence.
C4_NoEntryLost ==
    (StepWritten /\ NoDuplicateKeys(fn_in.entries)) =>
        /\ \A i \in (1..Len(fn_in.entries)) \ {fn_out.idx + 1} :
              /\ \E q \in 1..Len(fn_out.new_entries) : fn_out.new_entries[q] = fn_in.entries[i]
              /\ \A q \in PositionsOf(fn_out.new_entries, Key(fn_in.entries[i])) :
                     fn_out.new_entries[q] = fn_in.entries[i]
        /\ \E p \in 1..Len(fn_out.new_entries) :
              /\ IsTargetPos(p)
              /\ fn_out.new_entries[p] =
                     ListEntry(fn_in.entries[fn_out.idx + 1].lemma, Some(fn_out.chosen[1].original))

\* A step that moved a finished entry up, on a list without duplicate keys.
C4_Witness ==
    /\ StepWritten
    /\ NoDuplicateKeys(fn_in.entries)
    /\ \E i \in 1..Len(fn_in.entries) :
          /\ i > fn_out.idx + 1
          /\ fn_in.entries[i].sentence # None
          /\ Key(fn_in.entries[i]) \in Range(fn_out.reorders)

\* The candidates (by index) whose lemmas, lower-cased, contain the target.
Qualifying ==
    {i \in 1..Len(fn_in.lemmatized) :
        \E j \in 1..Len(fn_in.lemmatized[i].lemmas) :
            /\ fn_in.lemmatized[i].lemmas[j] # ""
            /\ Lower(fn_in.lemmatized[i].lemmas[j]) = Lower(fn_in.target_lemma)}

\* C5: choose_best_sentence returns one of the candidates whose lower-cased
\* lemmas contain the lower-cased target, and returns None exactly when
\* there is no such candidate (the empty candidate list included).
C5_ChosenContainsTarget ==
    fn_done =>
        /\ fn_out.chosen # None => \E i \in Qualifying : fn_in.lemmatized[i] = fn_out.chosen[1]
        /\ fn_out.chosen = None <=> Qualifying = {}

\* Two candidates, the first without the target, the second chosen.
C5_Witness ==
    /\ fn_done
    /\ Len(fn_in.lemmatized) = 2
    /\ 1 \notin Qualifying
    /\ fn_in.lemmatized[1].lemmas # <<>>
    /\ fn_out.chosen = Some(fn_in.lemmatized[2])

\* The pair a candidate is ranked by: the number of its distinct lemma keys
\* not among the known keys, and the number of its tokens.
NovelCount(i) ==
    Cardinality(SentenceKeys(fn_in.lemmatized[i])
                \ {Lower(fn_in.prev_lemmas[j]) : j \in 1..Len(fn_in.prev_lemmas)})
TokenCount(i) == Len(fn_in.lemmatized[i].tokens)
PairLess(i, j) ==
    \/ NovelCount(i) < NovelCount(j)
    \/ NovelCount(i) = NovelCount(j) /\ TokenCount(i) < TokenCount(j)

\* C6: the candidate returned is the first, in input order, of the
\* qualifying candidates whose pair (novel count, token count) is minimal
\* in the lexicographic order.
C6_MinimalPairFirstWins ==
    (fn_done /\ Qualifying # {}) =>
        \E i \in Qualifying :
            /\ fn_out.chosen = Some(fn_in.lemmatized[i])
            /\ \A j \in Qualifying : ~PairLess(j, i)
            /\ \A j \in Qualifying : (j < i) => PairLess(i, j)

\* Two different qualifying candidates with the same pair, the first one
\* chosen; and the pair decided by the token count where a word has no lemma.
C6_Witness ==
    /\ fn_done
    /\ Qualifying = {1, 2}
    /\ fn_in.lemmatized[1] # fn_in.lemmatized[2]
    /\ NovelCount(1) = NovelCount(2) /\ TokenCount(1) = TokenCount(2)
    /\ NovelCount(1) > 0
    /\ fn_out.chosen = Some(fn_in.lemmatized[1])

\* skip_count clamped to [0, len(entries)], and the unfinished indices
\* (0-based) from there on.
Clamped == IF fn_in.skip_count < 0 THEN 0
           ELSE IF fn_in.skip_count > Len(fn_in.entries) THEN Len(fn_in.entries)
           ELSE fn_in.skip_count
UndoneFrom(c) == {i \in c..(Len(fn_in.entries) - 1) : fn_in.entries[i + 1].sentence = None}

\* C7: find_next_undone_lemma returns the smallest index at or after the
\* clamped skip_count whose entry has no sentence, with that entry's lemma,
\* and raises exactly when there is no such index.
C7_FirstUndoneOrNotFound ==
    fn_done =>
        /\ fn_out.raised <=> UndoneFrom(Clamped) = {}
        /\ ~fn_out.raised =>
              /\ fn_out.index \in UndoneFrom(Clamped)
              /\ \A i \in UndoneFrom(Clamped) : fn_out.index <= i
              /\ fn_out.lemma = fn_in.entries[fn_out.index + 1].lemma

\* An unfinished entry inside the skip region is passed over for a later one.
C7_Witness ==
    /\ fn_done /\ ~fn_out.raised
    /\ fn_in.skip_count > 0
    /\ fn_in.entries[1].sentence = None
    /\ fn_out.index = 2

InStep == pc \in {"LOAD", "LOCATE", "GENERATE", "ANNOTATE", "SCORE", "REORDER", "PERSIST"}
\* Abort (no candidate contains the target) and the errors that end a run:
\* no list file, no unfinished lemma, the lemmatizer failing.
FailedOutcomes == {"Abort", "FileNotFound", "NotFound", "AnnotateFailed"}

\* Every finished step has written one file, the step under way and the
\* step that failed none, and no other file exists.
WritesMatchSteps ==
    /\ InStep => Len(writes) = step_idx - 1
    /\ (pc = "DONE" /\ outcome \in FailedOutcomes) => Len(writes) = step_idx - 1
    /\ (pc = "DONE" /\ outcome = "Completed") => Len(writes) = step_idx
    /\ DOMAIN files \ {filename} = Range(writes)

\* The only change of the file system: at the end of a step whose target
\* was located and whose sentence was chosen, the reordered list is
\* written under the next name, every other file staying as it is.
OnlyPersistWrites ==
    (files' # files \/ writes' # writes) =>
        /\ pc = "PERSIST" /\ chosen # None
        /\ entries[idx + 1].sentence = None
        /\ new_entries = apply_sentence_and_reorder(entries, idx, chosen[1], unknowns).new_entries
        /\ writes' = Append(writes, next_file)
        /\ DOMAIN files' = DOMAIN files \cup {next_file}
        /\ files'[next_file] = write_list_file(new_entries)
        /\ \A f \in DOMAIN files \ {next_file} : files'[f] = files[f]

\* A step that ends the run in failure changes no file.
FailedStepKeepsFiles ==
    (pc' = "DONE" /\ outcome' \in FailedOutcomes) => (files' = files)

\* C8: a step writes exactly one file, and only once the target is located,
\* the sentence chosen and the list reordered; a step that ends in Abort,
\* NotFound, a failure of the lemmatizer or any other error writes no file
\* and leaves every file as it was.
C8_StepAtomic ==
    /\ []WritesMatchSteps
    /\ [][OnlyPersistWrites]_vars
    /\ [][FailedStepKeepsFiles]_vars

\* A second step that aborts after a first one that wrote its file.
C8_Witness ==
    /\ pc = "DONE" /\ outcome = "Abort"
    /\ step_idx = 2 /\ Len(writes) = 1

\* Once the run has ended, nothing is loaded, chosen or written.
NothingAfterDone ==
    (pc = "DONE") => (pc' = "DONE" /\ UNCHANGED <<files, loads, writes, locals>>)

\* The parts of C9 that do not depend on the reasons of an early stop: the
\* run ends, it begins at most `steps` cycles (none for steps <= 0), and
\* once it has ended nothing is loaded, chosen or written any more.
RunEndsWithinSteps ==
    /\ <>(pc = "DONE")
    /\ [](Len(loads) <= (IF steps <= 0 THEN 0 ELSE steps))
    /\ [][NothingAfterDone]_vars

\* C9, as stated (for a run whose list file exists): the run ends within
\* `steps` cycles, and it ends with fewer than `steps` files written
\* exactly when a step ended in Abort or NotFound.
C9_EarlyStopOnlyAbortOrNotFound ==
    /\ RunEndsWithinSteps
    /\ []((pc = "DONE" /\ filename \in DOMAIN files) =>
             (Len(writes) < steps <=> outcome \in {"Abort", "NotFound"}))

\* C9, amended: the run ends within `steps` cycles, and it ends with fewer
\* than `steps` files written exactly when a step ended in Abort or in an
\* error that is not caught: NotFound, a missing list file, a failure of
\* the lemmatizer.
C9_EarlyStopAbortNotFoundOrFailure ==
    /\ RunEndsWithinSteps
    /\ [](pc = "DONE" => (Len(writes) < steps <=> outcome \in FailedOutcomes))

\* A run stopped by NotFound after a step that wrote, with steps left.
C9_Witness ==
    /\ pc = "DONE" /\ outcome = "NotFound"
    /\ Len(writes) >= 1 /\ Len(writes) < steps

\* The input file keeps its content.
InputFileKept ==
    (filename \in DOMAIN files) => (files'[filename] = files[filename])

\* C10: the names written in a run differ from the input name and from one
\* another, the input file is never written, the first step loads the
\* input file and every later step the file the step before it wrote.
C10_NewNameEachStep ==
    /\ [](/\ \A i \in 1..Len(writes) : writes[i] # filename
          /\ \A i, j \in 1..Len(writes) : i # j => writes[i] # writes[j]
          /\ Len(loads) >= 1 => loads[1] = filename
          /\ \A k \in 1..(Len(loads) - 1) : k <= Len(writes) /\ loads[k + 1] = writes[k])
    /\ [][InputFileKept]_vars

\* Three files written in a run whose input name has a leading zero and no
\* extension.
C10_Witness ==
    /\ Len(writes) = 3 /\ Len(loads) = 3
    /\ filename.zeros > 0

\* C11: in a step that chose a sentence, the lower-cased target lemma is in
\* neither novel list: not in unknown_list, which choose_best_sentence
\* reports (and counts), and not in the list handed to
\* apply_sentence_and_reorder.
C11_TargetNotInNovel ==
    StepWritten =>
        /\ Lower(fn_out.lemma) \notin Range(fn_out.unknown_list)
        /\ Lower(fn_out.lemma) \notin Range(fn_out.unknowns)

\* A field that holds a word (a character that is not white space), and
\* one that moreover neither begins nor ends with white space.
WordField(f) == \E i \in 1..Len(f) : ~IsSpace(f[i])
TrimmedField(f) == f # <<>> /\ ~IsSpace(f[1]) /\ ~IsSpace(f[Len(f)])
NoLineEnd(f) == NL \notin Range(f) /\ CR \notin Range(f)

\* A text of "\n"-ended lines, each `lemma` or `lemma<TAB>sentence`, all of
\* whose fields satisfy Ok.
TextOfLines(text, Ok(_)) ==
    /\ CR \notin Range(text)
    /\ text = <<>> \/ text[Len(text)] = NL
    /\ \A line \in Range(PlainLines(text, <<>>)) :
          \A f \in Range(FieldsOf(line)) : Ok(f)

\* C12, as stated: writing what was parsed from a well-formed text (one
\* entry per line, each line `lemma` or `lemma<TAB>sentence`, lemma and
\* sentence each holding a word) gives the text back, and parsing what was
\* written for a list whose sentences are None or non-empty (its lemmas
\* holding a word and no tab, no field a line end) gives the list back.
C12_RoundTrip ==
    fn_done =>
        /\ (fn_in.kind = "text" /\ TextOfLines(fn_in.text, WordField))
               => fn_out.text = fn_in.text
        /\ (/\ fn_in.kind = "entries"
            /\ \A e \in Range(fn_in.entries) :
                  /\ WordField(e.lemma) /\ NoLineEnd(e.lemma) /\ TAB \notin Range(e.lemma)
                  /\ e.sentence = None \/ (e.sentence[1] # <<>> /\ NoLineEnd(e.sentence[1])))
               => fn_out.entries = fn_in.entries

\* The lists whose lemmas are non-empty, tab-free and trimmed, and whose
\* sentences are None or non-empty and trimmed, no field holding a line end.
TrimmedEntries(es) ==
    \A e \in Range(es) :
        /\ TrimmedField(e.lemma) /\ NoLineEnd(e.lemma) /\ TAB \notin Range(e.lemma)
        /\ e.sentence = None \/ (TrimmedField(e.sentence[1]) /\ NoLineEnd(e.sentence[1]))

\* C12, amended: the two round trips hold when no field begins or ends with
\* white space: for a text of "\n"-ended lines whose lemmas and sentences
\* are non-empty and trimmed, and for a list whose lemmas are non-empty,
\* trimmed and tab-free and whose sentences are None or non-empty and
\* trimmed, no field holding a line end.
C12_RoundTripTrimmed ==
    fn_done =>
        /\ (fn_in.kind = "text" /\ TextOfLines(fn_in.text, TrimmedField))
               => fn_out.text = fn_in.text
        /\ (fn_in.kind = "entries" /\ TrimmedEntries(fn_in.entries))
               => fn_out.entries = fn_in.entries

\* A text of two lines, one with a sentence and one without, read and
\* written back.
C12_Witness ==
    /\ fn_done /\ fn_in.kind = "text"
    /\ TextOfLines(fn_in.text, TrimmedField)
    /\ Len(fn_out.entries) = 2
    /\ fn_out.entries[1].sentence # None
    /\ fn_out.entries[2].sentence = None

\* The first position (1-based) of the key k in a list that has it.
FirstPos(es, k) == CHOOSE p \in PositionsOf(es, k) : \A q \in PositionsOf(es, k) : p <= q

\* The novel keys of a step: the lemma keys of the chosen sentence that no
\* entry before the target bears, the target's own key left out.
NovelKeys ==
    (SentenceKeys(fn_out.chosen[1]) \ {Key(fn_in.entries[p]) : p \in 1..fn_out.idx})
        \ {Lower(fn_out.lemma)}

\* The novel keys that have an entry in the list (relocated) and those that
\* have none (wholly new).
RelocatedKeys == {k \in NovelKeys : PositionsOf(fn_in.entries, k) # {}}
NewKeys == {k \in NovelKeys : PositionsOf(fn_in.entries, k) = {}}

\* The output with a block of b entries, R being the relocated keys and W
\* the new ones: the entries before the target as they were; a block that
\* holds, for every relocated key, its first entry with the sentence it
\* had, for every new key a bare entry, and nothing else; the target with
\* the chosen sentence; the rest of the list, in order, without the entries
\* of the relocated keys.
ShapeWithBlock(b, R, W) ==
    LET es == fn_in.entries
        out == fn_out.new_entries
        i == fn_out.idx
        Stays(e) == Key(e) \notin R
        block == {out[p] : p \in (i + 1)..(i + b)}
    IN /\ \A p \in 1..i : out[p] = es[p]
       /\ block = {es[FirstPos(es, k)] : k \in R} \cup {ListEntry(k, None) : k \in W}
       /\ out[i + b + 1] = ListEntry(es[i + 1].lemma, Some(fn_out.chosen[1].original))
       /\ SubSeq(out, i + b + 2, Len(out)) = SelectSeq(SubSeq(es, i + 2, Len(es)), Stays)

\* C13: the list a step returns is the entries before the target, then the
\* insertion block (relocated entries with the sentence they had, new keys
\* as bare entries), then the target with the chosen sentence, then the
\* rest of the list in its order without the old entries of the relocated
\* keys; with no novel key it is the input with the target's sentence set.
C13_OutputShape ==
    StepWritten =>
        /\ \E R \in {RelocatedKeys} : \E W \in {NewKeys} :
              \E b \in 0..(Len(fn_out.new_entries) - fn_out.idx - 1) : ShapeWithBlock(b, R, W)
        /\ NovelKeys = {} =>
               fn_out.new_entries =
                   [fn_in.entries EXCEPT ![fn_out.idx + 1].sentence =
                        Some(fn_out.chosen[1].original)]

\* A step that moved a finished entry up, inserted a new key and left an
\* entry in the rest of the list.
C13_Witness ==
    /\ StepWritten
    /\ NewKeys # {}
    /\ \E k \in RelocatedKeys : fn_in.entries[FirstPos(fn_in.entries, k)].sentence # None
    /\ \E p \in (fn_out.idx + 2)..Len(fn_in.entries) :
          Key(fn_in.entries[p]) \notin RelocatedKeys

\* The insertion block of a step: the entries of the output from the old
\* place of the target up to the entry that received the sentence.
BlockKeys ==
    LET out == fn_out.new_entries
        p == CHOOSE q \in 1..Len(out) : IsTargetPos(q)
    IN [j \in 1..(p - 1 - fn_out.idx) |-> Key(out[fn_out.idx + j])]

\* C14, as stated: the entries of the insertion block are in the sorted
\* order of their keys, whatever the order of the lemmas in the chosen
\* sentence.
C14_BlockSorted ==
    StepWritten =>
        \A p, q \in 1..Len(BlockKeys) :
            p < q => StrRank(BlockKeys[p]) <= StrRank(BlockKeys[q])

\* The novel lemmas of the chosen sentence as they occur in it, one after
\* the other.
NovelInSentenceOrder ==
    LET IsNovel(l) == l \in NovelKeys
    IN SelectSeq(LemmasLower(fn_out.chosen[1].lemmas), IsNovel)

\* C14, amended: the entries of the insertion block are in the order in
\* which their lemmas occur in the chosen sentence, one entry for each
\* occurrence, relocations and insertions interleaved in that one order.
C14_BlockInSentenceOrder ==
    StepWritten => BlockKeys = NovelInSentenceOrder

\* A step whose block holds an inserted key before a relocated one that
\* sorts before it.
C14_Witness ==
    /\ StepWritten
    /\ Len(BlockKeys) = 2
    /\ BlockKeys[1] \in NewKeys /\ BlockKeys[2] \in RelocatedKeys
    /\ StrRank(BlockKeys[2]) < StrRank(BlockKeys[1])

\* The list a step is about to write has, before the target's old place,
\* the entries of the list it read, each at its place.
PrefixKept ==
    (pc = "PERSIST") =>
        /\ Len(new_entries) > idx
        /\ \A p \in 1..idx : new_entries[p] = entries[p]

\* The skip region, the first min(skip, length) entries of the input list,
\* is the same in every file written.
SkipRegionKept ==
    (filename \in DOMAIN files) =>
        LET input == parse_list_file(files[filename])
            m == Min(skip_count, Len(input))
        IN \A i \in 1..Len(writes) :
               LET written == parse_list_file(files[writes[i]])
               IN /\ Len(written) >= m
                  /\ SubSeq(written, 1, m) = SubSeq(input, 1, m)

\* The target located by a step is not before the target of the step
\* before it.
IndexNeverDecreases ==
    (pc = "LOCATE" /\ pc' = "GENERATE" /\ step_idx > 1) => idx' >= idx

\* C15: no step touches the entries before its target; so, over a run, the
\* skip region is the same in every file written and the target index of
\* successive steps never decreases.
C15_PrefixUntouched ==
    /\ []PrefixKept
    /\ []SkipRegionKept
    /\ [][IndexNeverDecreases]_vars

\* A third step that located its target beyond the skip region and beyond
\* the targets before it, after two files were written, the list having
\* grown.
C15_Witness ==
    /\ pc = "GENERATE" /\ Len(writes) = 2
    /\ skip_count >= 1 /\ idx > skip_count
    /\ Len(entries) > Len(files[filename])

====
